---- MODULE Spec2Model ----
(***************************************************************************)
(* NeuralSearch: the page-aware overlapping chunker (src/src/chunking.py), *)
(* the FAISS index build / persist / load path (src/src/vector_index.py,   *)
(* src/src/storage.py) and query-time retrieval (src/src/search.py).       *)
(*                                                                         *)
(* A text is a sequence of naturals: 0 is one whitespace character, a      *)
(* positive number is one maximal run of non-whitespace characters (a      *)
(* word).  A filename is a natural number.  A vector is a tuple of         *)
(* integers.                                                               *)
(***************************************************************************)
EXTENDS Integers, Sequences, FiniteSets, TLC

VARIABLES
    \* --- one call of create_chunks_with_metadata (its arguments and locals)
    doc_pages, filename, doc_id, chunks, chunk_counter, combined_parts,
    start_idx, ck_pc,
    \* an earlier completed call kept for comparison: its arguments and result
    earlier,
    \* --- the index life cycle
    uploads,        \* names of the PDFs in data/uploads
    faiss_file,     \* contents of index/faiss.index
    meta_file,      \* contents of index/metadata.json
    pc,             \* position of the build-and-save handler
    mem,            \* (index, metadata) returned by build_index, not yet saved
    out,            \* what the last operation returned or raised
    \* --- one run of the generator chunk_text (its arguments and locals)
    ct_text, ct_chunk_size, ct_overlap, ct_words, ct_start,
    ct_yielded,     \* the strings yielded so far
    ct_pc

chunkerVars == <<doc_pages, filename, doc_id, chunks, chunk_counter,
                 combined_parts, start_idx, ck_pc, earlier>>
indexVars == <<uploads, faiss_file, meta_file, pc, mem, out>>
chunkTextVars == <<ct_text, ct_chunk_size, ct_overlap, ct_words, ct_start,
                   ct_yielded, ct_pc>>
vars == <<doc_pages, filename, doc_id, chunks, chunk_counter, combined_parts,
          start_idx, ck_pc, earlier, uploads, faiss_file, meta_file, pc, mem,
          out, ct_text, ct_chunk_size, ct_overlap, ct_words, ct_start,
          ct_yielded, ct_pc>>

(***************************************************************************)
(* Program constants                                                       *)
(***************************************************************************)
CHUNK_SIZE_WORDS == 300
CHUNK_OVERLAP_WORDS == 50

(***************************************************************************)
(* Bounds of the model                                                     *)
(***************************************************************************)
MaxPages == 2        \* pages per document handed to the chunker
MaxPageNum == 2      \* page numbers are 1..MaxPageNum
NumFileNames == 2    \* filenames handed to the chunker are 1..NumFileNames
HashSpace == 5       \* number of distinct 12-hex-digit digests modelled
NumFiles == 3        \* PDFs that can be uploaded are 1..NumFiles
EmbDim == 2          \* dimension of the embedding vectors
EmbMod == 5          \* vector components are 0..EmbMod-1
NumQueries == 2      \* distinct query strings
MaxK == 3            \* k of a search is 1..MaxK
MaxTextWords == 2    \* words of a text to highlight
MaxQueryWords == 2   \* words of a highlight query
MaxSmallChunkSize == 3  \* chunk_size of chunk_text besides the default
MaxSmallWords == 6   \* words of a text chunked with a small chunk_size

Min2(a, b) == IF a <= b THEN a ELSE b

(***************************************************************************)
(* Text                                                                    *)
(***************************************************************************)
\* str.split(): the maximal non-whitespace runs, in order
Split(text) == SelectSeq(text, LAMBDA c : c # 0)

\* " ".join(words): the words with exactly one whitespace between neighbours
Join(words) ==
    [i \in 1..(2 * Len(words) - 1) |->
        IF i % 2 = 1 THEN words[(i + 1) \div 2] ELSE 0]

\* Text of a page as the reader yields it (stripped, non-empty for n >= 1):
\* n distinct words; the gap before a word is a single whitespace, except
\* that every third word is preceded by two (a line break and an indent),
\* so three words and their gaps take seven characters.
WordOf(seed, page_num, k) == seed * 1000000 + page_num * 1000 + k

WordPos(k) == 7 * ((k - 1) \div 3) + (CASE (k - 1) % 3 = 0 -> 1
                                         [] (k - 1) % 3 = 1 -> 3
                                         [] OTHER -> 6)

PageText(seed, page_num, n) ==
    IF n = 0 THEN <<>>
    ELSE [i \in 1..WordPos(n) |->
            LET m == (i - 1) \div 7
                j == (i - 1) % 7
            IN  CASE j = 0 -> WordOf(seed, page_num, 3 * m + 1)
                  [] j = 2 -> WordOf(seed, page_num, 3 * m + 2)
                  [] j = 5 -> WordOf(seed, page_num, 3 * m + 3)
                  [] OTHER -> 0]

(***************************************************************************)
(* chunking.py                                                             *)
(***************************************************************************)
\* hashlib.md5(filename.encode()).hexdigest()[:12]: a fixed digest of the
\* filename alone
generate_doc_id(fname) == (fname * 7 + 3) % HashSpace

\* lines 65-72: every word of every page, in page order, tagged with its page
RECURSIVE Flatten(_)
Flatten(pages) ==
    IF pages = <<>> THEN <<>>
    ELSE LET page == Head(pages)
             words == Split(page.text)
         IN  [i \in 1..Len(words) |->
                 [word |-> words[i], page |-> page.page_num]]
             \o Flatten(Tail(pages))

EndIdxOneShort(parts, start) ==
    Min2(start + CHUNK_SIZE_WORDS - 1, Len(parts))

\* line 81
EndIdx(parts, start) == Min2(start + CHUNK_SIZE_WORDS, Len(parts))

\* line 83: combined_parts[start_idx:end_idx]
ChunkParts(parts, start) == SubSeq(parts, start + 1, EndIdx(parts, start))

\* lines 87-89: sorted(set(pages))[0] and [-1]
PagesInChunk(chunk_parts) == {chunk_parts[i].page : i \in 1..Len(chunk_parts)}
SortedFirst(S) == CHOOSE x \in S : \A y \in S : x <= y
SortedLast(S) == CHOOSE x \in S : \A y \in S : y <= x

PageStartOfFirstWord(chunk_parts) == chunk_parts[1].page
PageStart(chunk_parts) == SortedFirst(PagesInChunk(chunk_parts))
PageEnd(chunk_parts) == SortedLast(PagesInChunk(chunk_parts))

\* lines 83-98: the chunk dict of the window starting at start
MakeChunk(parts, start, did, fname, counter) ==
    LET chunk_parts == ChunkParts(parts, start)
    IN  [doc_id     |-> did,
         file_name  |-> fname,
         chunk_id   |-> <<did, counter>>,
         page_start |-> PageStart(chunk_parts),
         page_end   |-> PageEnd(chunk_parts),
         text       |-> Join([i \in 1..Len(chunk_parts) |-> chunk_parts[i].word])]

NextStartSkipping(start) == start + CHUNK_SIZE_WORDS + CHUNK_OVERLAP_WORDS
NextStartShort(start) == start + CHUNK_SIZE_WORDS - CHUNK_OVERLAP_WORDS - 1

\* line 101
NextStart(start) == start + CHUNK_SIZE_WORDS - CHUNK_OVERLAP_WORDS

ChunksLeftOver == chunks
CounterFromOne == 0 + 1

\* lines 60-61: the locals a call starts from
ChunksAtEntry == <<>>
CounterAtEntry == 0

\* lines 80-104 run to completion
RECURSIVE WindowLoop(_, _, _, _, _, _)
WindowLoop(parts, start, did, fname, counter, acc) ==
    IF ~(start < Len(parts)) THEN acc
    ELSE LET acc2 == Append(acc, MakeChunk(parts, start, did, fname, counter))
         IN  IF NextStart(start) >= Len(parts) THEN acc2
             ELSE WindowLoop(parts, NextStart(start), did, fname,
                             counter + 1, acc2)

\* lines 48-106 as a function of its arguments
create_chunks_with_metadata(pages, fname) ==
    LET parts == Flatten(pages)
    IN  IF parts = <<>> THEN <<>>
        ELSE WindowLoop(parts, 0, generate_doc_id(fname), fname, 0, <<>>)

(***************************************************************************)
(* chunking.py: the generator chunk_text                                   *)
(***************************************************************************)
\* lines 36-37: words[start:start + chunk_size]
ChunkWords(words, start, chunk_size) ==
    SubSeq(words, start + 1, Min2(start + chunk_size, Len(words)))

ChunkTextNextStartOneLess(start, chunk_size, overlap) ==
    start + chunk_size - overlap - 1

\* line 41
ChunkTextNextStart(start, chunk_size, overlap) ==
    start + chunk_size - overlap

(***************************************************************************)
(* Inputs of the chunker                                                   *)
(***************************************************************************)
PageWordCounts ==
    {1, CHUNK_SIZE_WORDS - CHUNK_OVERLAP_WORDS,
     CHUNK_SIZE_WORDS - CHUNK_OVERLAP_WORDS + 1, CHUNK_SIZE_WORDS}

PageChoices ==
    {[page_num |-> p, text |-> PageText(0, p, n)] :
        p \in 1..MaxPageNum, n \in PageWordCounts}

\* page lists of up to MaxPages pages with pairwise distinct page numbers,
\* in any order
DistinctPages(d) ==
    \A i, j \in 1..Len(d) : i # j => d[i].page_num # d[j].page_num

Docs ==
    UNION {{d \in [1..n -> PageChoices] : DistinctPages(d)} : n \in 0..MaxPages}

FileNames == 1..NumFileNames

NoCall == [called |-> FALSE]

\* --- the call, step by step ------------------------------------------------
\* lines 59-75: entry, flattening, and the early return for an empty document
ChunkerCall(pages, fname) ==
    /\ doc_pages' = pages
    /\ filename' = fname
    /\ doc_id' = generate_doc_id(fname)
    /\ chunks' = ChunksAtEntry
    /\ chunk_counter' = CounterAtEntry
    /\ combined_parts' = Flatten(pages)
    /\ start_idx' = 0
    /\ ck_pc' = IF combined_parts' = <<>> THEN "returned_early" ELSE "loop"

\* lines 80-104: one iteration of the while loop
ChunkerIterate ==
    /\ ck_pc = "loop"
    /\ start_idx < Len(combined_parts)
    /\ chunks' = Append(chunks, MakeChunk(combined_parts, start_idx, doc_id,
                                          filename, chunk_counter))
    /\ chunk_counter' = chunk_counter + 1
    /\ start_idx' = NextStart(start_idx)
    /\ ck_pc' = IF NextStart(start_idx) >= Len(combined_parts)
                THEN "returned" ELSE "loop"
    /\ UNCHANGED <<doc_pages, filename, doc_id, combined_parts>>

\* what the call handed back: [] at line 75, chunks at line 106
Returned == ck_pc \in {"returned", "returned_early"}
ReturnValue == IF ck_pc = "returned_early" THEN <<>> ELSE chunks

\* --- the chunker under repeated calls ---------------------------------------
\* A first call, with any arguments, when no call is in progress.
Call ==
    /\ ck_pc = "idle"
    /\ ct_pc = "idle"
    /\ \E pages \in Docs, fname \in FileNames :
          /\ earlier.called => (pages = earlier.doc_pages /\ fname = earlier.filename)
          /\ ChunkerCall(pages, fname)
    /\ earlier' = IF earlier.called THEN [earlier EXCEPT !.again = TRUE]
                  ELSE earlier
    /\ UNCHANGED <<indexVars, chunkTextVars>>

\* The same arguments again, the locals of the call before still in place.
CallAgain ==
    /\ Returned
    /\ ChunkerCall(doc_pages, filename)
    /\ earlier' = IF earlier.called THEN [earlier EXCEPT !.again = TRUE]
                  ELSE earlier
    /\ UNCHANGED <<indexVars, chunkTextVars>>

Iterate == ChunkerIterate /\ UNCHANGED <<earlier, indexVars, chunkTextVars>>

\* The caller keeps the arguments and the result of a completed call.
Remember ==
    /\ Returned
    /\ ~earlier.called
    /\ earlier' = [called |-> TRUE, again |-> FALSE, doc_pages |-> doc_pages,
                   filename |-> filename, result |-> ReturnValue]
    /\ UNCHANGED <<doc_pages, filename, doc_id, chunks, chunk_counter,
                   combined_parts, start_idx, ck_pc, indexVars, chunkTextVars>>

Forget ==
    /\ ck_pc = "idle"
    /\ earlier.called
    /\ earlier' = NoCall
    /\ UNCHANGED <<doc_pages, filename, doc_id, chunks, chunk_counter,
                   combined_parts, start_idx, ck_pc, indexVars, chunkTextVars>>

\* The frame of a completed call is dropped.
DropFrame ==
    /\ Returned
    /\ doc_pages' = <<>>
    /\ filename' = 1
    /\ doc_id' = generate_doc_id(1)
    /\ chunks' = <<>>
    /\ chunk_counter' = 0
    /\ combined_parts' = <<>>
    /\ start_idx' = 0
    /\ ck_pc' = "idle"
    /\ UNCHANGED <<earlier, indexVars, chunkTextVars>>


(***************************************************************************)
(* chunk_text, step by step                                                *)
(***************************************************************************)
\* (chunk_size, overlap): the defaults, and every small pair with
\* 0 <= overlap < chunk_size
ChunkTextParams ==
    {<<CHUNK_SIZE_WORDS, CHUNK_OVERLAP_WORDS>>}
        \cup {cs \in (1..MaxSmallChunkSize) \X (0..(MaxSmallChunkSize - 1)) :
                  cs[2] < cs[1]}

ChunkTextWordCounts ==
    (0..MaxSmallWords) \cup PageWordCounts
        \cup {CHUNK_SIZE_WORDS + 1,
              2 * (CHUNK_SIZE_WORDS - CHUNK_OVERLAP_WORDS) + 1}

\* a text of n words: separated by single spaces, or laid out as a page is
ChunkTextInput(n, single_spaced) ==
    IF single_spaced THEN Join([k \in 1..n |-> WordOf(0, 1, k)])
    ELSE PageText(0, 1, n)

\* lines 27-34: the call up to its first yield or to the loop
ChunkTextCall ==
    /\ ct_pc = "idle"
    /\ ck_pc = "idle"
    /\ ~earlier.called
    /\ \E params \in ChunkTextParams, n \in ChunkTextWordCounts,
          single_spaced \in BOOLEAN :
          /\ n <= MaxSmallWords \/ params[1] = CHUNK_SIZE_WORDS
          /\ ct_text' = ChunkTextInput(n, single_spaced)
          /\ ct_chunk_size' = params[1]
          /\ ct_overlap' = params[2]
    /\ ct_words' = Split(ct_text')
    /\ ct_start' = 0
    /\ IF Len(ct_words') <= ct_chunk_size'
       THEN ct_yielded' = <<ct_text'>> /\ ct_pc' = "done"
       ELSE ct_yielded' = <<>> /\ ct_pc' = "loop"
    /\ UNCHANGED <<chunkerVars, uploads, faiss_file, meta_file, pc, mem, out>>

\* lines 35-45: one iteration of the while loop
ChunkTextIterate ==
    /\ ct_pc = "loop"
    /\ ct_start < Len(ct_words)
    /\ ct_yielded' =
           Append(ct_yielded,
                  Join(ChunkWords(ct_words, ct_start, ct_chunk_size)))
    /\ ct_start' = ChunkTextNextStart(ct_start, ct_chunk_size, ct_overlap)
    /\ ct_pc' = IF ct_start' >= Len(ct_words) THEN "done" ELSE "loop"
    /\ UNCHANGED <<ct_text, ct_chunk_size, ct_overlap, ct_words, chunkerVars,
                   uploads, faiss_file, meta_file, pc, mem, out>>

\* The exhausted generator is dropped.
ChunkTextDropFrame ==
    /\ ct_pc = "done"
    /\ ct_text' = <<>>
    /\ ct_chunk_size' = CHUNK_SIZE_WORDS
    /\ ct_overlap' = CHUNK_OVERLAP_WORDS
    /\ ct_words' = <<>>
    /\ ct_start' = 0
    /\ ct_yielded' = <<>>
    /\ ct_pc' = "idle"
    /\ UNCHANGED <<chunkerVars, uploads, faiss_file, meta_file, pc, mem, out>>

(***************************************************************************)
(* Properties of the chunker                                               *)
(***************************************************************************)
\* The words of a page, read off the page text without splitting it: the
\* text ends with the page's last word, whose number is the word count.
WordsOfPage(page) ==
    IF page.text = <<>> THEN <<>>
    ELSE LET last == page.text[Len(page.text)]
             base == (last \div 1000) * 1000
         IN  [k \in 1..(last % 1000) |-> base + k]

PageOfWord(w) == (w \div 1000) % 1000

RECURSIVE WordsOfPages(_)
WordsOfPages(pages) ==
    IF pages = <<>> THEN <<>>
    ELSE WordsOfPage(Head(pages)) \o WordsOfPages(Tail(pages))

ExpectedWords == WordsOfPages(doc_pages)
DocPageNums == {doc_pages[i].page_num : i \in 1..Len(doc_pages)}
MinOf(S) == CHOOSE x \in S : \A y \in S : x <= y
MaxOf(S) == CHOOSE x \in S : \A y \in S : y <= x

PassageWords(j) == Split(ReturnValue[j].text)

\* the position (1-based) of a word in the flattened document, 0 for a word
\* the document does not hold: the words of the pages before its page, plus
\* its number within the page
PageWordCount(page) ==
    IF page.text = <<>> THEN 0 ELSE page.text[Len(page.text)] % 1000

RECURSIVE WordsBefore(_)
WordsBefore(i) ==
    IF i <= 1 THEN 0
    ELSE PageWordCount(doc_pages[i - 1]) + WordsBefore(i - 1)

PosOfWord(word) ==
    LET here == {i \in 1..Len(doc_pages) :
                    /\ doc_pages[i].page_num = PageOfWord(word)
                    /\ word % 1000 \in 1..PageWordCount(doc_pages[i])}
    IN  IF here = {} THEN 0
        ELSE WordsBefore(CHOOSE i \in here : TRUE) + (word % 1000)

\* the word positions a passage occupies in the flattened document; empty
\* when its words are not a contiguous in-order run of the document
PositionsOfWords(doc, w) ==
    IF w = <<>> THEN {}
    ELSE LET first == PosOfWord(w[1])
             last == first + Len(w) - 1
         IN  IF first # 0 /\ last <= Len(doc)
                          /\ w = SubSeq(doc, first, last)
             THEN first..last
             ELSE {}

\* passage number |-> the positions it occupies
PositionsOf ==
    LET doc == ExpectedWords
    IN  [j \in 1..Len(ReturnValue) |-> PositionsOfWords(doc, PassageWords(j))]

\* C1 (as claimed): a document of 1..chunk_size_words words yields exactly one
\* passage, holding all its words and spanning its minimum to maximum page.
C1_ShortDocumentOnePassage ==
    (Returned /\ Len(ExpectedWords) \in 1..CHUNK_SIZE_WORDS) =>
        /\ Len(ReturnValue) = 1
        /\ PassageWords(1) = ExpectedWords
        /\ ReturnValue[1].page_start = MinOf(DocPageNums)
        /\ ReturnValue[1].page_end = MaxOf(DocPageNums)

\* C5: every word position of the flattened document lies in some passage,
\* and every passage is a contiguous in-order run of the document's words.
C5_Coverage ==
    Returned =>
        LET positions == PositionsOf
        IN  /\ \A j \in DOMAIN positions : positions[j] # {}
            /\ \A p \in 1..Len(ExpectedWords) :
                   \E j \in DOMAIN positions : p \in positions[j]

C5_Witness ==
    /\ Returned
    /\ Len(ReturnValue) >= 3
    /\ Len(doc_pages) >= 2
    /\ Len(ExpectedWords) % (CHUNK_SIZE_WORDS - CHUNK_OVERLAP_WORDS) # 0

\* C6: two consecutive passages share exactly overlap_words positions when
\* the later one is not the last passage, and at most overlap_words when it is.
Shared(positions, j) == Cardinality(positions[j] \cap positions[j + 1])

C6_OverlapBound ==
    Returned =>
        LET positions == PositionsOf
        IN  \A j \in 1..(Len(ReturnValue) - 1) :
                IF j + 1 < Len(ReturnValue)
                THEN Shared(positions, j) = CHUNK_OVERLAP_WORDS
                ELSE Shared(positions, j) <= CHUNK_OVERLAP_WORDS

C6_Witness ==
    /\ Returned
    /\ Len(ReturnValue) >= 3
    /\ Shared(PositionsOf, 1) = CHUNK_OVERLAP_WORDS
    /\ Shared(PositionsOf, Len(ReturnValue) - 1) < CHUNK_OVERLAP_WORDS

\* C7: page_start / page_end of every passage are the least / greatest page
\* number among the passage's words, hence ordered and inside the document's
\* page range, whatever the order of the input pages.
PagesOfPassage(j) ==
    LET w == PassageWords(j) IN {PageOfWord(w[i]) : i \in 1..Len(w)}

C7_PageSpan ==
    Returned =>
        \A j \in 1..Len(ReturnValue) :
          LET pages == PagesOfPassage(j) IN
            /\ pages # {}
            /\ ReturnValue[j].page_start = MinOf(pages)
            /\ ReturnValue[j].page_end = MaxOf(pages)
            /\ ReturnValue[j].page_start <= ReturnValue[j].page_end
            /\ MinOf(DocPageNums) <= ReturnValue[j].page_start
            /\ ReturnValue[j].page_end <= MaxOf(DocPageNums)

\* a passage spanning two pages of a document whose pages arrive in
\* descending order
C7_Witness ==
    /\ Returned
    /\ Len(doc_pages) = 2
    /\ doc_pages[1].page_num > doc_pages[2].page_num
    /\ \E j \in 1..Len(ReturnValue) :
          ReturnValue[j].page_start < ReturnValue[j].page_end

\* C8: a call repeated with the arguments of an earlier call returns the
\* passage list the earlier call returned.
C8_Deterministic ==
    (Returned /\ earlier.called /\ earlier.again
        /\ doc_pages = earlier.doc_pages /\ filename = earlier.filename) =>
        ReturnValue = earlier.result

C8_Witness ==
    /\ Returned
    /\ earlier.called
    /\ earlier.again
    /\ doc_pages = earlier.doc_pages
    /\ filename = earlier.filename
    /\ Len(earlier.result) >= 2
    /\ ReturnValue = earlier.result

(***************************************************************************)
(* pdf_ingest.py, chunking.process_all_documents                           *)
(***************************************************************************)
Files == 1..NumFiles

\* extract_text_by_page: the pages of a PDF that hold text, numbered from 1.
\* The document in PDF f has DocumentOf(f) such pages, at page numbers
\* 1, 3, ...; page i of them holds i words.  PDFs 1 and 3 are the same
\* one-page document uploaded under two names, PDF 2 is a two-page
\* document, PDF 4 holds no text (a scan) and yields [].
DocumentOf(f) == IF f % 4 = 3 THEN 1 ELSE f % 4

extract_text_by_page(f) ==
    [i \in 1..DocumentOf(f) |->
        [page_num |-> 2 * i - 1,
         text |-> PageText(DocumentOf(f), 2 * i - 1, i)]]

\* sorted(UPLOADS_DIR.glob("*.pdf"))
RECURSIVE SortedSeq(_)
SortedSeq(S) ==
    IF S = {} THEN <<>>
    ELSE LET x == CHOOSE y \in S : \A z \in S : y <= z
         IN  <<x>> \o SortedSeq(S \ {x})

list_uploaded_pdfs == SortedSeq(uploads)

\* extract_from_multiple: filename -> pages, files without text left out,
\* in the order of pdf_paths
RECURSIVE extract_from_multiple(_)
extract_from_multiple(pdf_paths) ==
    IF pdf_paths = <<>> THEN <<>>
    ELSE LET pages == extract_text_by_page(Head(pdf_paths))
         IN  (IF pages # <<>>
              THEN <<[name |-> Head(pdf_paths), pages |-> pages]>>
              ELSE <<>>)
             \o extract_from_multiple(Tail(pdf_paths))

\* process_all_documents: the chunks of every document, in dict order
RECURSIVE process_all_documents(_)
process_all_documents(docs) ==
    IF docs = <<>> THEN <<>>
    ELSE create_chunks_with_metadata(Head(docs).pages, Head(docs).name)
         \o process_all_documents(Tail(docs))

(***************************************************************************)
(* embedder.py                                                             *)
(***************************************************************************)
RECURSIVE SumSeq(_)
SumSeq(q) == IF q = <<>> THEN 0 ELSE Head(q) + SumSeq(Tail(q))

\* model.encode of one string: a vector of EmbDim components that depends on
\* the words of the string only
Encode(text) ==
    LET words == Split(text)
    IN  [i \in 1..EmbDim |-> (SumSeq(words) + i * Len(words)) % EmbMod]

EmbedTextsReversed(texts) ==
    [i \in 1..Len(texts) |-> Encode(texts[Len(texts) + 1 - i])]

\* embed_texts: one row per text, in the order of texts
embed_texts(texts) == [i \in 1..Len(texts) |-> Encode(texts[i])]

\* embed_query
embed_query(query) == Encode(query)

(***************************************************************************)
(* vector_index.py: build_index                                            *)
(***************************************************************************)
ProgressMilestonesHalfLast(total) == <<0, total, total \div 2>>

\* lines 32, 39, 51: the values of current the callback is called with
ProgressMilestones(total) == <<0, total \div 2, total>>

BuildIndexNoCheck(chunks_arg, progress_callback) ==
    [kind |-> "ok", embedded |-> TRUE, progress |-> <<>>,
     index |-> [d |-> EmbDim, xb |-> <<>>],
     metadata |-> chunks_arg]

\* lines 25-55.  An index is its dimension d and its stored rows xb;
\* ntotal is Len(xb).  progress_callback tells whether a callback was
\* passed; progress lists its invocations <<current, total>> in order.
build_index(chunks_arg, progress_callback) ==
    IF chunks_arg = <<>>
    THEN [kind |-> "ValueError", embedded |-> FALSE, progress |-> <<>>]
    ELSE LET texts == [i \in 1..Len(chunks_arg) |-> chunks_arg[i].text]
             total == Len(texts)
             embeddings == embed_texts(texts)
         IN  [kind |-> "ok", embedded |-> TRUE,
              progress |->
                  IF progress_callback
                  THEN [i \in 1..3 |-> <<ProgressMilestones(total)[i], total>>]
                  ELSE <<>>,
              index |-> [d |-> Len(embeddings[1]), xb |-> embeddings],
              metadata |-> chunks_arg]

AddToIndexIncremental(index, new_chunks, existing_metadata) ==
    LET texts == [i \in 1..Len(new_chunks) |-> new_chunks[i].text]
    IN  [kind |-> "ok", embedded |-> TRUE, progress |-> <<>>,
         index |-> [d |-> index.d, xb |-> index.xb \o embed_texts(texts)],
         metadata |-> existing_metadata \o new_chunks]

\* lines 79-90
add_to_index(index, new_chunks, existing_metadata) ==
    LET all_chunks == existing_metadata \o new_chunks
    IN  build_index(all_chunks, FALSE)

(***************************************************************************)
(* storage.py                                                              *)
(***************************************************************************)
\* A file is absent, or present and readable with its content, or present
\* and torn (a write that did not complete).
NoFile == [exists |-> FALSE]
TornFile == [exists |-> TRUE, torn |-> TRUE]
FileOf(content) == [exists |-> TRUE, torn |-> FALSE, content |-> content]
Readable(file) == file.exists /\ ~file.torn

IndexExistsEither(faiss, meta) == faiss.exists \/ meta.exists

\* lines 96-98
index_exists(faiss, meta) == faiss.exists /\ meta.exists

\* path.unlink() guarded by path.exists()
Unlink(file) == IF file.exists THEN NoFile ELSE file

ClearIndexKeepsMetadata(faiss, meta) ==
    [faiss |-> Unlink(faiss), meta |-> meta]

\* lines 101-106
clear_index(faiss, meta) ==
    [faiss |-> Unlink(faiss), meta |-> Unlink(meta)]

\* load_faiss_index / load_metadata: None when the file is absent, the
\* reader's exception when it cannot be parsed
LoadFile(file) ==
    IF ~file.exists THEN [kind |-> "None"]
    ELSE IF file.torn THEN [kind |-> "exception"]
    ELSE [kind |-> "ok", value |-> file.content]

(***************************************************************************)
(* search.py                                                               *)
(***************************************************************************)
Dot(u, v) ==
    SumSeq([i \in 1..Min2(Len(u), Len(v)) |-> u[i] * v[i]])

\* the inner product of the query vector with stored row i (1-based)
Score(xb, qv, i) == Dot(qv, xb[i])

\* index.search(query_vector, kk) of an IndexFlatIP: every answer the
\* library may give.  An answer lists kk hits <<score, 0-based position>>,
\* best score first, no position twice, no stored row left out that scores
\* better than a listed one; slots beyond the stored rows hold position -1.
\* The library fixes no order among rows of equal score.
IndexSearch(xb, qv, kk) ==
    LET n == Len(xb)
        m == Min2(kk, n)
        scores == [i \in 1..n |-> Score(xb, qv, i)]
        orders ==
            {s \in [1..m -> 1..n] :
                /\ \A a, b \in 1..m :
                      a < b => /\ s[a] # s[b]
                               /\ scores[s[a]] >= scores[s[b]]
                /\ \A i \in 1..n :
                      (\A a \in 1..m : s[a] # i) =>
                          \A a \in 1..m : scores[i] <= scores[s[a]]}
    IN  {[h \in 1..kk |-> IF h <= m THEN <<scores[s[h]], s[h] - 1>>
                                    ELSE <<-1, -1>>] : s \in orders}

Queries == {Join(<<WordOf(q, 1, 1)>>) : q \in 1..NumQueries}

SearchKAll(k, ntotal) == ntotal

\* line 41: min(k, index.ntotal)
SearchK(k, ntotal) == Min2(k, ntotal)

AttachScoreInPlace(metadata, idx, score) ==
    LET chunk_meta == [similarity_score |-> score] @@ metadata[idx + 1]
    IN  [chunk_meta |-> chunk_meta,
         metadata |-> [metadata EXCEPT ![idx + 1] = chunk_meta]]

\* lines 53-54: chunk_meta is a copy of metadata[idx] that gets the score;
\* the loaded list is left as it is
AttachScore(metadata, idx, score) ==
    [chunk_meta |-> [similarity_score |-> score] @@ metadata[idx + 1],
     metadata |-> metadata]

\* lines 48-57: the loop over zip(scores, indices); the loaded metadata list
\* as the loop leaves it is kept beside the results
RECURSIVE ResultLoop(_, _, _)
ResultLoop(metadata, hits, results) ==
    IF hits = <<>>
    THEN [kind |-> "results", results |-> results, metadata_after |-> metadata]
    ELSE LET score == Head(hits)[1]
             idx == Head(hits)[2]
         IN  IF idx = -1 THEN ResultLoop(metadata, Tail(hits), results)
             ELSE IF idx >= Len(metadata)
             THEN [kind |-> "IndexError", results |-> results,
                   metadata_after |-> metadata]
             ELSE LET step == AttachScore(metadata, idx, score)
                  IN  ResultLoop(step.metadata, Tail(hits),
                                 Append(results, step.chunk_meta))

\* lines 24-57: every outcome of search(query, k) over the two files
search(faiss, meta, query, k) ==
    LET seen == [had_index |-> faiss.exists, had_meta |-> meta.exists,
                 exists |-> index_exists(faiss, meta), k |-> k,
                 query |-> query]
    IN
    IF ~index_exists(faiss, meta)
    THEN {[kind |-> "None", loaded |-> FALSE] @@ seen}
    ELSE LET index == LoadFile(faiss)
             metadata == LoadFile(meta)
         IN
         IF index.kind = "exception" \/ metadata.kind = "exception"
         THEN {[kind |-> "exception", loaded |-> FALSE] @@ seen}
         ELSE IF index.kind = "None" \/ metadata.kind = "None"
         THEN {[kind |-> "None", loaded |-> FALSE] @@ seen}
         ELSE LET xb == index.value.xb
                  md == metadata.value
                  sizes == [loaded |-> TRUE, ntotal |-> Len(xb),
                            nmeta |-> Len(md)]
              IN  {ResultLoop(md, hits, <<>>) @@ [hits |-> hits]
                       @@ sizes @@ seen :
                   hits \in IndexSearch(xb, embed_query(query),
                                        SearchK(k, Len(xb)))}

\* Strings built by f-strings are sequences of characters and literal
\* pieces.  str(n) of a non-negative int: its decimal digits.
Digits == <<"0", "1", "2", "3", "4", "5", "6", "7", "8", "9">>

\* the character U+2013 of line 71
EnDash == "U+2013"

RECURSIVE Str(_)
Str(n) ==
    IF n < 10 THEN <<Digits[n + 1]>>
    ELSE Str(n \div 10) \o <<Digits[(n % 10) + 1]>>

\* the file name string that the model's file name f stands for
FileNameText(f) == <<"doc">> \o Str(f) \o <<".pdf">>

FormatCitationAlwaysRange(result, include_pages) ==
    <<"(">> \o FileNameText(result.file_name) \o <<", p. ">>
        \o Str(result.page_start) \o <<EnDash>> \o Str(result.page_end)
        \o <<")">>

\* lines 60-73
format_citation(result, include_pages) ==
    LET file_name == FileNameText(result.file_name)
    IN  IF include_pages
        THEN LET page_start == result.page_start
                 page_end == result.page_end
             IN  IF page_start = page_end
                 THEN <<"(">> \o file_name \o <<", p. ">> \o Str(page_start)
                          \o <<")">>
                 ELSE <<"(">> \o file_name \o <<", p. ">> \o Str(page_start)
                          \o <<EnDash>> \o Str(page_end) \o <<")">>
        ELSE <<"(">> \o file_name \o <<")">>

(***************************************************************************)
(* search.py: highlight_keywords.  Here a string is the sequence of its    *)
(* characters.                                                             *)
(***************************************************************************)
WhitespaceChars == {" ", "\n"}

\* the characters of the strip() argument of line 92
Punctuation == {".", ",", "!", "?", ";", ":", "\"", "'", "(", ")", "[", "]"}

\* str.split(): the maximal runs of non-whitespace characters
RECURSIVE StrSplitLoop(_, _, _)
StrSplitLoop(rest, word, words) ==
    IF rest = <<>>
    THEN IF word = <<>> THEN words ELSE Append(words, word)
    ELSE IF Head(rest) \in WhitespaceChars
    THEN StrSplitLoop(Tail(rest), <<>>,
                      IF word = <<>> THEN words ELSE Append(words, word))
    ELSE StrSplitLoop(Tail(rest), Append(word, Head(rest)), words)

StrSplit(str) == StrSplitLoop(str, <<>>, <<>>)

\* str.lower()
LowerChar(c) ==
    CASE c = "A" -> "a" [] c = "B" -> "b" [] c = "C" -> "c" [] OTHER -> c

StrLower(str) == [i \in 1..Len(str) |-> LowerChar(str[i])]

\* str.strip(chars): leading and trailing characters of chars removed
StrStrip(str, chars) ==
    LET kept == {i \in 1..Len(str) : str[i] \notin chars}
    IN  IF kept = {} THEN <<>>
        ELSE SubSeq(str, CHOOSE i \in kept : \A j \in kept : i <= j,
                         CHOOSE i \in kept : \A j \in kept : j <= i)

\* sep.join(words)
RECURSIVE StrJoin(_, _)
StrJoin(sep, words) ==
    IF words = <<>> THEN <<>>
    ELSE IF Len(words) = 1 THEN words[1]
    ELSE words[1] \o sep \o StrJoin(sep, Tail(words))

HighlightKeywordsCaseSensitive(text, query, highlight_start, highlight_end) ==
    LET kept == SelectSeq(StrSplit(query), LAMBDA w : Len(w) > 2)
        query_words == [j \in 1..Len(kept) |-> StrLower(kept[j])]
        words == StrSplit(text)
    IN  IF query_words = <<>> THEN text
        ELSE StrJoin(<<" ">>,
                 [i \in 1..Len(words) |->
                     IF \E j \in 1..Len(query_words) :
                            query_words[j] = StrStrip(words[i], Punctuation)
                     THEN highlight_start \o words[i] \o highlight_end
                     ELSE words[i]])

\* lines 76-100
highlight_keywords(text, query, highlight_start, highlight_end) ==
    LET kept == SelectSeq(StrSplit(query), LAMBDA w : Len(w) > 2)
        query_words == [j \in 1..Len(kept) |-> StrLower(kept[j])]
        words == StrSplit(text)
    IN  IF query_words = <<>> THEN text
        ELSE StrJoin(<<" ">>,
                 [i \in 1..Len(words) |->
                     LET word_lower ==
                             StrStrip(StrLower(words[i]), Punctuation)
                     IN  IF \E j \in 1..Len(query_words) :
                                query_words[j] = word_lower
                         THEN highlight_start \o words[i] \o highlight_end
                         ELSE words[i]])

\* vector_index.py lines 65-76
load_index_and_metadata(faiss, meta) ==
    LET index == LoadFile(faiss)
        metadata == LoadFile(meta)
    IN  IF index.kind = "exception"
            \/ (index.kind = "ok" /\ metadata.kind = "exception")
        THEN [kind |-> "exception", loaded |-> FALSE]
        ELSE IF index.kind = "None" \/ metadata.kind = "None"
        THEN [kind |-> "None", loaded |-> FALSE]
        ELSE [kind |-> "pair", loaded |-> TRUE,
              ntotal |-> Len(index.value.xb), nmeta |-> Len(metadata.value)]

(***************************************************************************)
(* The index life cycle: handlers of app.py and the calls they make        *)
(***************************************************************************)
NoPair == [built |-> FALSE]
NoOutcome == [op |-> "none"]

\* storage.save_uploaded_path
SaveUploadedPath(f) ==
    /\ pc = "idle"
    /\ f \notin uploads
    /\ uploads' = uploads \cup {f}
    /\ out' = [op |-> "save_uploaded_path"]
    /\ UNCHANGED <<faiss_file, meta_file, pc, mem,
                   chunkerVars, chunkTextVars>>

\* storage.delete_uploaded_file
DeleteUploadedFile(f) ==
    /\ pc = "idle"
    /\ uploads' = uploads \ {f}
    /\ out' = [op |-> "delete_uploaded_file", deleted |-> f \in uploads]
    /\ UNCHANGED <<faiss_file, meta_file, pc, mem,
                   chunkerVars, chunkTextVars>>

\* index, metadata = build_index(chunks, progress_callback=...) in a
\* handler that then saves
BuildIndexCall(chunks_arg, progress_callback) ==
    LET r == build_index(chunks_arg, progress_callback)
    IN  /\ out' = [op |-> "build_index", kind |-> r.kind,
                   nchunks |-> Len(chunks_arg), embedded |-> r.embedded,
                   progress_callback |-> progress_callback,
                   progress |-> r.progress]
        /\ IF r.kind = "ok"
           THEN /\ mem' = [built |-> TRUE, chunks |-> chunks_arg,
                           index |-> r.index, metadata |-> r.metadata]
                /\ pc' = "save_faiss_index"
           ELSE /\ mem' = NoPair
                /\ pc' = "idle"
        /\ UNCHANGED <<uploads, faiss_file, meta_file,
                       chunkerVars, chunkTextVars>>

\* app.rebuild_index lines 88-107
RebuildIndex ==
    /\ pc = "idle"
    /\ LET pdfs == list_uploaded_pdfs
           docs == extract_from_multiple(pdfs)
       IN  IF pdfs = <<>>
           THEN /\ out' = [op |-> "rebuild_index", kind |-> "No PDFs to index."]
                /\ UNCHANGED <<uploads, faiss_file, meta_file, pc, mem,
                               chunkerVars, chunkTextVars>>
           ELSE IF docs = <<>>
           THEN /\ out' = [op |-> "rebuild_index",
                           kind |-> "No text extracted from PDFs."]
                /\ UNCHANGED <<uploads, faiss_file, meta_file, pc, mem,
                               chunkerVars, chunkTextVars>>
           ELSE BuildIndexCall(process_all_documents(docs), TRUE)

\* build_index handed an empty list of chunks, with or without a callback
BuildIndexEmptyCorpus ==
    /\ pc = "idle"
    /\ \E progress_callback \in BOOLEAN :
          BuildIndexCall(<<>>, progress_callback)

\* add_to_index(index, new_chunks, existing_metadata) on the pair read from
\* the two files and the passages of one more uploaded PDF
AddToIndex ==
    /\ pc = "idle"
    /\ Readable(faiss_file)
    /\ Readable(meta_file)
    /\ \E f \in uploads :
          LET index == LoadFile(faiss_file).value
              existing_metadata == LoadFile(meta_file).value
              new_chunks ==
                  process_all_documents(extract_from_multiple(<<f>>))
              r == add_to_index(index, new_chunks, existing_metadata)
          IN  out' = [op |-> "add_to_index", index_arg |-> index,
                      existing_metadata |-> existing_metadata,
                      new_chunks |-> new_chunks, returned |-> r]
    /\ UNCHANGED <<uploads, faiss_file, meta_file, pc, mem,
                   chunkerVars, chunkTextVars>>

\* save_index_and_metadata line 60 (storage.save_faiss_index)
SaveFaissIndex ==
    /\ pc = "save_faiss_index"
    /\ faiss_file' = FileOf(mem.index)
    /\ pc' = "save_metadata"
    /\ out' = [op |-> "save_faiss_index"]
    /\ UNCHANGED <<uploads, meta_file, mem, chunkerVars, chunkTextVars>>

\* save_index_and_metadata line 61 (storage.save_metadata)
SaveMetadata ==
    /\ pc = "save_metadata"
    /\ meta_file' = FileOf(mem.metadata)
    /\ pc' = "idle"
    /\ mem' = NoPair
    /\ out' = [op |-> "save_index_and_metadata"]
    /\ UNCHANGED <<uploads, faiss_file, chunkerVars, chunkTextVars>>

\* The process dies inside save_index_and_metadata: before the pending
\* write started (the file it was about to write is as it was) or during it
\* (that file is left torn).
Crash ==
    /\ pc \in {"save_faiss_index", "save_metadata"}
    /\ \E torn \in BOOLEAN :
          /\ faiss_file' = IF torn /\ pc = "save_faiss_index"
                           THEN TornFile ELSE faiss_file
          /\ meta_file' = IF torn /\ pc = "save_metadata"
                          THEN TornFile ELSE meta_file
    /\ pc' = "idle"
    /\ mem' = NoPair
    /\ out' = [op |-> "crash"]
    /\ UNCHANGED <<uploads, chunkerVars, chunkTextVars>>

\* storage.clear_index (app.clear_index_action): what it found, and the
\* two files as it leaves them
ClearIndex ==
    /\ pc = "idle"
    /\ faiss_file' = clear_index(faiss_file, meta_file).faiss
    /\ meta_file' = clear_index(faiss_file, meta_file).meta
    /\ out' = [op |-> "clear_index", had_index |-> faiss_file.exists,
               had_meta |-> meta_file.exists]
    /\ UNCHANGED <<uploads, pc, mem, chunkerVars, chunkTextVars>>

\* search.search
Search ==
    /\ pc = "idle"
    /\ \E query \in Queries, k \in 1..MaxK :
          \E r \in search(faiss_file, meta_file, query, k) :
              out' = [op |-> "search"] @@ r
    /\ UNCHANGED <<uploads, faiss_file, meta_file, pc, mem,
                   chunkerVars, chunkTextVars>>

\* format_citation(result) on a record of the list search returned
\* (app.run_search line 149); the list stays at hand for the next record
FormatCitation ==
    /\ pc = "idle"
    /\ out.op \in {"search", "format_citation"}
    /\ out.kind = "results"
    /\ \E h \in 1..Len(out.results), include_pages \in BOOLEAN :
          out' = [op |-> "format_citation", kind |-> "results",
                  results |-> out.results, h |-> h,
                  include_pages |-> include_pages,
                  citation |-> format_citation(out.results[h], include_pages)]
    /\ UNCHANGED <<uploads, faiss_file, meta_file, pc, mem,
                   chunkerVars, chunkTextVars>>

\* The strings highlight_keywords is called with: words in either case,
\* with and without punctuation around them, shorter and longer than two
\* characters, separated by one or more whitespace characters.
TextWords ==
    {<<"A", "b", "c">>, <<"a", "b", "c", ".">>, <<"(", "A", "B", "C", ")">>,
     <<"a", "b">>, <<".", ".">>}

QueryWords ==
    {<<"a", "b", "c">>, <<"A", "B", "C">>, <<"a", "b">>,
     <<"a", "b", "c", ".">>}

Separators == {<<" ">>, <<" ", "\n">>}

SeqsUpTo(pool, n) == UNION {[1..m -> pool] : m \in 0..n}

HighlightTexts ==
    {lead \o StrJoin(sep, words) :
        lead \in {<<>>, <<" ">>}, sep \in Separators,
        words \in SeqsUpTo(TextWords, MaxTextWords)}

HighlightQueries ==
    {StrJoin(sep, words) :
        sep \in {<<" ">>}, words \in SeqsUpTo(QueryWords, MaxQueryWords)}

Markers == {<<<<"*", "*">>, <<"*", "*">>>>, <<<<"<">>, <<">">>>>}

\* highlight_keywords(text, query, highlight_start, highlight_end)
HighlightKeywords ==
    /\ pc = "idle"
    /\ out = NoOutcome
    /\ \E text \in HighlightTexts, query \in HighlightQueries,
          marks \in Markers :
          out' = [op |-> "highlight_keywords", text |-> text,
                  query |-> query, highlight_start |-> marks[1],
                  highlight_end |-> marks[2],
                  result |-> highlight_keywords(text, query, marks[1],
                                                marks[2])]
    /\ UNCHANGED <<uploads, faiss_file, meta_file, pc, mem,
                   chunkerVars, chunkTextVars>>

\* the caller has taken the highlighted string
HighlightTaken ==
    /\ out.op = "highlight_keywords"
    /\ out' = NoOutcome
    /\ UNCHANGED <<uploads, faiss_file, meta_file, pc, mem,
                   chunkerVars, chunkTextVars>>

\* vector_index.load_index_and_metadata
LoadIndexAndMetadata ==
    /\ pc = "idle"
    /\ out' = [op |-> "load_index_and_metadata"]
                 @@ load_index_and_metadata(faiss_file, meta_file)
    /\ UNCHANGED <<uploads, faiss_file, meta_file, pc, mem,
                   chunkerVars, chunkTextVars>>

Init ==
    /\ doc_pages = <<>>
    /\ filename = 1
    /\ doc_id = generate_doc_id(1)
    /\ chunks = <<>>
    /\ chunk_counter = 0
    /\ combined_parts = <<>>
    /\ start_idx = 0
    /\ ck_pc = "idle"
    /\ earlier = NoCall
    /\ uploads = {}
    /\ faiss_file = NoFile
    /\ meta_file = NoFile
    /\ pc = "idle"
    /\ mem = NoPair
    /\ out = NoOutcome
    /\ ct_text = <<>>
    /\ ct_chunk_size = CHUNK_SIZE_WORDS
    /\ ct_overlap = CHUNK_OVERLAP_WORDS
    /\ ct_words = <<>>
    /\ ct_start = 0
    /\ ct_yielded = <<>>
    /\ ct_pc = "idle"

Next ==
    \/ \E f \in Files : SaveUploadedPath(f)
    \/ \E f \in Files : DeleteUploadedFile(f)
    \/ RebuildIndex
    \/ BuildIndexEmptyCorpus
    \/ AddToIndex
    \/ SaveFaissIndex
    \/ SaveMetadata
    \/ Crash
    \/ ClearIndex
    \/ Search
    \/ FormatCitation
    \/ LoadIndexAndMetadata

Spec == Init /\ [][Next]_vars

(***************************************************************************)
(* Properties of the index life cycle                                      *)
(***************************************************************************)
\* both files readable, as many rows as records, and row i the embedding of
\* the text of record i
Aligned(faiss, meta) ==
    /\ Readable(faiss)
    /\ Readable(meta)
    /\ Len(faiss.content.xb) = Len(meta.content)
    /\ \A i \in 1..Len(meta.content) :
          faiss.content.xb[i] = Encode(meta.content[i].text)

\* C2: what build_index returns for a non-empty passage list: as many
\* vectors as passages, the passage list itself as metadata, and vector i
\* the embedding of the text of passage i.
C2_BuildAlignment ==
    mem.built =>
        /\ mem.chunks # <<>>
        /\ Len(mem.index.xb) = Len(mem.chunks)
        /\ mem.metadata = mem.chunks
        /\ \A i \in 1..Len(mem.chunks) :
              mem.index.xb[i] = Encode(mem.chunks[i].text)

C2_Witness ==
    /\ mem.built
    /\ Len(mem.chunks) >= 2
    /\ mem.index.xb[1] # mem.index.xb[2]

\* C3 (as claimed): whenever no save is in progress and both persisted files
\* are readable, they hold equally many entries and entry i of both is the
\* same passage - also after a crash inside save_index_and_metadata.
C3_PersistedPairAligned ==
    (pc = "idle" /\ Readable(faiss_file) /\ Readable(meta_file)) =>
        Aligned(faiss_file, meta_file)

\* C4 (as claimed): a load or a search that finds a vector count different
\* from the metadata length fails with a load error.
C4_LoadChecksConsistency ==
    (/\ out.op \in {"search", "load_index_and_metadata"}
     /\ out.loaded
     /\ out.ntotal # out.nmeta) => out.kind = "IndexLoadError"

\* C9: search answers None exactly when it found the index file or the
\* metadata file absent, and index_exists holds iff both are present.
C9_NoIndexSignal ==
    out.op = "search" =>
        /\ out.had_index = faiss_file.exists
        /\ out.had_meta = meta_file.exists
        /\ out.exists <=> (out.had_index /\ out.had_meta)
        /\ (~out.had_index \/ ~out.had_meta) => out.kind = "None"
        /\ out.kind = "None" => (~out.had_index \/ ~out.had_meta)

\* a search that found only the index file
C9_Witness ==
    /\ out.op = "search"
    /\ out.kind = "None"
    /\ out.had_index
    /\ ~out.had_meta

\* C10: build_index on zero passages raises before embedding, starts no save
\* and leaves both persisted files as they were.
C10_EmptyCorpusBuild ==
    [][(out'.op = "build_index" /\ out'.nchunks = 0) =>
          /\ out'.kind = "ValueError"
          /\ ~out'.embedded
          /\ pc' = "idle"
          /\ mem' = NoPair
          /\ faiss_file' = faiss_file
          /\ meta_file' = meta_file]_vars

\* an empty build refused while a complete older pair is on disk
C10_Witness ==
    /\ out.op = "build_index"
    /\ out.nchunks = 0
    /\ out.kind = "ValueError"
    /\ pc = "idle"
    /\ Aligned(faiss_file, meta_file)

\* C11: a search over a consistent persisted pair of n >= 1 vectors returns
\* exactly min(k, n) result records, also when k > n.
C11_KClamping ==
    (out.op = "search" /\ Aligned(faiss_file, meta_file)) =>
        /\ out.kind = "results"
        /\ out.ntotal >= 1
        /\ Len(out.results) =
               IF out.k <= out.ntotal THEN out.k ELSE out.ntotal

\* k beyond the stored count: all n >= 2 records come back
C11_Witness ==
    /\ out.op = "search"
    /\ Aligned(faiss_file, meta_file)
    /\ out.ntotal >= 2
    /\ out.k > out.ntotal
    /\ out.kind = "results"
    /\ Len(out.results) = out.ntotal

\* C12 (as claimed): the returned records are in descending score order,
\* equal scores in ascending insertion position, and they are the index's
\* answer record for record, none dropped and none moved.
C12_ScoreOrder ==
    (out.op = "search" /\ out.kind = "results") =>
        /\ Len(out.results) = Len(out.hits)
        /\ \A h \in 1..Len(out.hits) :
              out.results[h].similarity_score = out.hits[h][1]
        /\ \A g, h \in 1..Len(out.hits) :
              g < h => \/ out.hits[g][1] > out.hits[h][1]
                       \/ /\ out.hits[g][1] = out.hits[h][1]
                          /\ out.hits[g][2] < out.hits[h][2]

\* C13: each returned record is the persisted metadata record at the
\* position the index returned plus that position's score, and the loaded
\* metadata list is as it was read: no record of it gained a score.
C13_ResultRecords ==
    (out.op = "search" /\ out.kind = "results") =>
        /\ \A h \in 1..Len(out.results) :
              LET rec == meta_file.content[out.hits[h][2] + 1]
                  res == out.results[h]
              IN  /\ DOMAIN res = DOMAIN rec \cup {"similarity_score"}
                  /\ \A field \in DOMAIN rec : res[field] = rec[field]
                  /\ res.similarity_score = out.hits[h][1]
                  /\ res.similarity_score =
                         Dot(embed_query(out.query),
                             faiss_file.content.xb[out.hits[h][2] + 1])
        /\ out.metadata_after = meta_file.content
        /\ \A i \in 1..Len(out.metadata_after) :
              DOMAIN out.metadata_after[i] =
                  {"doc_id", "file_name", "chunk_id", "page_start",
                   "page_end", "text"}

\* two records returned, not in the order they were inserted
C13_Witness ==
    /\ out.op = "search"
    /\ out.kind = "results"
    /\ Len(out.results) >= 2
    /\ out.hits[1][2] > out.hits[2][2]
    /\ out.hits[1][1] > out.hits[2][1]
    /\ out.results[1].text # out.results[2].text

\* C14: clear_index leaves neither file and does not touch the uploads;
\* from then on both files stay absent until save_index_and_metadata starts
\* to write the pair of a successful build, and every search meanwhile
\* answers None.
NoIndexOnDisk == ~faiss_file.exists /\ ~meta_file.exists

C14_ClearIsWholesale ==
    [][/\ out'.op = "clear_index" =>
              /\ ~faiss_file'.exists
              /\ ~meta_file'.exists
              /\ uploads' = uploads
       /\ (NoIndexOnDisk /\ out'.op = "search") => out'.kind = "None"
       /\ (NoIndexOnDisk /\ (faiss_file'.exists \/ meta_file'.exists)) =>
              /\ pc = "save_faiss_index"
              /\ mem.built
              /\ mem.chunks # <<>>]_vars

\* a clear that removed both files of an index while documents are uploaded
C14_Witness ==
    /\ out.op = "clear_index"
    /\ out.had_index
    /\ out.had_meta
    /\ uploads # {}
    /\ NoIndexOnDisk

\* C15: the citation of a result record is "(file_name, p. page_start)"
\* when the passage lies on one page and "(file_name, p. page_start", an en dash, "page_end)"
\* otherwise, and formatting leaves the record as it was.
C15_Citation ==
    [][(out'.op = "format_citation" /\ out'.include_pages) =>
          LET before == out.results[out'.h]
              after == out'.results[out'.h]
              name == FileNameText(before.file_name)
          IN  /\ after = before
              /\ out'.results = out.results
              /\ Len(out'.citation) =
                     IF before.page_start = before.page_end
                     THEN Len(name) + Len(Str(before.page_start)) + 3
                     ELSE Len(name) + Len(Str(before.page_start))
                              + Len(Str(before.page_end)) + 4
              /\ SubSeq(out'.citation, 1, Len(name) + 2) =
                     <<"(">> \o name \o <<", p. ">>
              /\ out'.citation[Len(out'.citation)] = ")"
              /\ SubSeq(out'.citation, Len(name) + 3,
                        Len(name) + 2 + Len(Str(before.page_start))) =
                     Str(before.page_start)
              /\ before.page_start # before.page_end =>
                     SubSeq(out'.citation,
                            Len(name) + 3 + Len(Str(before.page_start)),
                            Len(out'.citation) - 1) =
                         <<EnDash>> \o Str(before.page_end)]_vars

\* the citation of a passage that spans two pages
C15_Witness ==
    /\ out.op = "format_citation"
    /\ out.include_pages
    /\ out.results[out.h].page_start < out.results[out.h].page_end
    /\ out.citation = <<"(", "doc", "2", ".pdf", ", p. ", "1", EnDash, "3", ")">>

\* C16: the output holds the words of the text in their order and casing;
\* a word is wrapped in the markers exactly when its lowercased form without
\* surrounding punctuation is the lowercased form of a query word longer
\* than two characters, and is unchanged otherwise.
IsQueryWord(word, query) ==
    \E j \in 1..Len(StrSplit(query)) :
        /\ Len(StrSplit(query)[j]) > 2
        /\ StrLower(StrSplit(query)[j]) =
               StrStrip(StrLower(word), Punctuation)

C16_Highlight ==
    out.op = "highlight_keywords" =>
        LET words == StrSplit(out.text)
            shown == StrSplit(out.result)
        IN  /\ Len(shown) = Len(words)
            /\ \A i \in 1..Len(words) :
                  IF IsQueryWord(words[i], out.query)
                  THEN shown[i] =
                           out.highlight_start \o words[i] \o out.highlight_end
                  ELSE shown[i] = words[i]

\* "(ABC)" wrapped for the query word "abc", "ab" passed through
C16_Witness ==
    /\ out.op = "highlight_keywords"
    /\ out.query = <<"a", "b", "c", " ", "a", "b">>
    /\ out.text = <<"(", "A", "B", "C", ")", " ", "\n", "a", "b">>
    /\ out.result = <<"<", "(", "A", "B", "C", ")", ">", " ", "a", "b">>

\* C17: for n >= 1 words and stride s = chunk size - overlap the passages
\* are, in order, the windows starting at word 0, s, 2s, ... below n, one
\* passage per start; the window at start holds min(chunk size, n - start)
\* words, so the last, shorter window is emitted once.
Stride == CHUNK_SIZE_WORDS - CHUNK_OVERLAP_WORDS

C17_Windows ==
    (Returned /\ Len(ExpectedWords) >= 1) =>
        LET n == Len(ExpectedWords)
            positions == PositionsOf
            starts == {t \in 0..(n - 1) : t % Stride = 0}
        IN  /\ Len(ReturnValue) = Cardinality(starts)
            /\ \A j \in 1..Len(ReturnValue) :
                  LET start == (j - 1) * Stride
                  IN  /\ start \in starts
                      /\ positions[j] =
                             (start + 1)..
                                 (start + Min2(CHUNK_SIZE_WORDS, n - start))

\* three windows, the last one shorter than the stride
C17_Witness ==
    /\ Returned
    /\ Len(ReturnValue) = 3
    /\ Len(ExpectedWords) = 2 * Stride + 1
    /\ Len(PassageWords(3)) = 1
    /\ Len(PassageWords(2)) = Stride + 1

\* C20: the m passages of a document carry the chunk ids doc_id_0 ..
\* doc_id_(m-1) in emission order, and all carry the document's doc_id and
\* file_name.
C20_ChunkIds ==
    Returned =>
        \A j \in 1..Len(ReturnValue) :
            /\ ReturnValue[j].chunk_id = <<generate_doc_id(filename), j - 1>>
            /\ ReturnValue[j].doc_id = generate_doc_id(filename)
            /\ ReturnValue[j].file_name = filename
            /\ \A i \in 1..Len(ReturnValue) :
                  i # j => ReturnValue[i].chunk_id # ReturnValue[j].chunk_id

\* a repeated call whose three passages are numbered 0, 1, 2 again
C20_Witness ==
    /\ Returned
    /\ earlier.called
    /\ earlier.again
    /\ Len(ReturnValue) = 3
    /\ ReturnValue[3].chunk_id[2] = 2
    /\ ReturnValue[1].chunk_id[2] = 0

\* C19: a build with a progress callback calls it first with current = 0
\* and last with current = total, with current never decreasing and always
\* in 0..total, and returns the pair a build without callback returns.
C19_Progress ==
    (out.op = "build_index" /\ out.kind = "ok" /\ out.progress_callback) =>
        LET calls == out.progress
            total == out.nchunks
            silent == build_index(mem.chunks, FALSE)
        IN  /\ calls # <<>>
            /\ calls[1] = <<0, total>>
            /\ calls[Len(calls)] = <<total, total>>
            /\ \A i \in 1..Len(calls) :
                  /\ calls[i][1] \in 0..total
                  /\ calls[i][2] = total
                  /\ i > 1 => calls[i - 1][1] <= calls[i][1]
            /\ silent.progress = <<>>
            /\ mem.index = silent.index
            /\ mem.metadata = silent.metadata

\* a build over three passages: the callback saw 0, 1 and 3 of 3
C19_Witness ==
    /\ out.op = "build_index"
    /\ out.kind = "ok"
    /\ out.progress_callback
    /\ out.progress = <<<<0, 3>>, <<1, 3>>, <<3, 3>>>>
    /\ mem.built
    /\ Len(mem.index.xb) = 3

\* C18: add_to_index returns what build_index returns for the existing
\* records followed by the new ones: that list as metadata, one vector per
\* record of it, vector i the embedding of record i, whatever index was
\* passed in.
C18_AddIsRebuild ==
    out.op = "add_to_index" =>
        LET all_chunks == out.existing_metadata \o out.new_chunks
            r == out.returned
        IN  /\ r.kind = "ok"
            /\ r.metadata = all_chunks
            /\ \A i \in 1..Len(out.existing_metadata) :
                  r.metadata[i] = out.existing_metadata[i]
            /\ \A i \in 1..Len(out.new_chunks) :
                  r.metadata[Len(out.existing_metadata) + i] =
                      out.new_chunks[i]
            /\ Len(r.index.xb) =
                   Len(out.existing_metadata) + Len(out.new_chunks)
            /\ \A i \in 1..Len(all_chunks) :
                  r.index.xb[i] = Encode(all_chunks[i].text)
            /\ r.index = build_index(all_chunks, TRUE).index

\* the index passed in held two vectors beside one existing record, and
\* one new passage was added
C18_Witness ==
    /\ out.op = "add_to_index"
    /\ Len(out.index_arg.xb) = 2
    /\ Len(out.existing_metadata) = 1
    /\ Len(out.new_chunks) = 1
    /\ Len(out.returned.index.xb) = 2
    /\ out.returned.index.xb # out.index_arg.xb

\* C21 (as claimed): for a non-empty text of single-space-separated words,
\* chunk_text with the default chunk_size and overlap yields the texts of
\* the passages create_chunks_with_metadata makes of one page holding that
\* text: as many chunks, the same text at each position.
C21_ChunkersAgree ==
    (/\ ct_pc = "done"
     /\ ct_chunk_size = CHUNK_SIZE_WORDS
     /\ ct_overlap = CHUNK_OVERLAP_WORDS
     /\ ct_words # <<>>
     /\ ct_text = Join(ct_words)) =>
        LET passages ==
                create_chunks_with_metadata(
                    <<[page_num |-> 1, text |-> ct_text]>>, 1)
        IN  /\ Len(ct_yielded) = Len(passages)
            /\ \A j \in 1..Len(passages) : ct_yielded[j] = passages[j].text

\* C22: every iteration of either window loop moves its start index
\* strictly forward, a finished run has emitted at most one passage per
\* word (one for a text chunk_text does not split), and a loop that was
\* entered ends.
C22_Termination ==
    /\ [][/\ (ck_pc = "loop" /\ chunks' # chunks) => start_idx' > start_idx
          /\ (ct_pc = "loop" /\ ct_yielded' # ct_yielded) =>
                 ct_start' > ct_start]_vars
    /\ [](Returned => Len(ReturnValue) <= Len(combined_parts))
    /\ [](ct_pc = "done" =>
             \/ Len(ct_yielded) <= Len(ct_words)
             \/ Len(ct_yielded) = 1)
    /\ (ck_pc = "loop") ~> Returned
    /\ (ct_pc = "loop") ~> (ct_pc = "done")

\* chunk_text run to its end with the smallest step the parameters allow:
\* chunk_size - overlap = 1, one chunk per word
C22_Witness ==
    /\ ct_pc = "done"
    /\ ct_overlap >= 1
    /\ ct_chunk_size - ct_overlap = 1
    /\ Len(ct_words) = MaxSmallWords
    /\ Len(ct_yielded) = MaxSmallWords
    /\ ct_start = MaxSmallWords

NextChunk == Call \/ CallAgain \/ Iterate \/ Remember \/ Forget \/ DropFrame

SpecChunk == Init /\ [][NextChunk]_vars

\* Both chunkers, one call at a time.  A loop that has started keeps
\* running: the interpreter executes its next iteration.
NextChunkers ==
    \/ Call
    \/ Iterate
    \/ DropFrame
    \/ ChunkTextCall
    \/ ChunkTextIterate
    \/ ChunkTextDropFrame

SpecChunkers ==
    /\ Init
    /\ [][NextChunkers]_vars
    /\ WF_vars(Iterate)
    /\ WF_vars(ChunkTextIterate)

NextHighlight == HighlightKeywords \/ HighlightTaken

SpecHighlight == Init /\ [][NextHighlight]_vars

====
